---- MODULE Spec2Model ----
(***************************************************************************)
(* Model of the Smartlogic client (client.go, concept.go): the client's    *)
(* session state, the token exchange, the authorized-request loop with its *)
(* 401-triggered refresh, and the three operation methods.                 *)
(*                                                                         *)
(* Strings that only get compared are TLA+ strings.  Strings that get      *)
(* concatenated or escaped (URLs, identifiers) are sequences of tokens: a  *)
(* token is one reserved character or a run of unreserved characters.      *)
(* A JSON document is the sequence of its top-level members, in the order  *)
(* they are written; a request body's "bytes" are those members.           *)
(***************************************************************************)
EXTENDS Integers, Sequences, FiniteSets, TLC

\* ---------------------------------------------------------------- bounds
NumProcs == 2
MaxAltLabels == 1

\* ------------------------------------------------------- program constants
MaxAccessFailures == 3
StatusOK == 200
StatusCreated == 201
StatusUnauthorized == 401
StatusInternalServerError == 500
\* no response at all: httpClient.Do returned an error
TransportFailure == 0

ConceptURIPrefix == <<"http", ":", "/", "/", "www.ft.com", "/", "thing">>
MetadataFieldPrefix == <<"http", ":", "/", "/", "www.ft.com", "/", "ontology">>

Procs == 1..NumProcs

\* ------------------------------------------------------------ url.QueryEscape
\* One token escaped: unreserved runs stay, a space becomes "+", any other
\* character becomes "%" followed by its two hex digits.
EscapeToken(t) ==
    CASE t = "<" -> <<"%", "3C">>
      [] t = ">" -> <<"%", "3E">>
      [] t = ":" -> <<"%", "3A">>
      [] t = "/" -> <<"%", "2F">>
      [] t = "%" -> <<"%", "25">>
      [] t = "=" -> <<"%", "3D">>
      [] t = "(" -> <<"%", "28">>
      [] t = ")" -> <<"%", "29">>
      [] t = "\"" -> <<"%", "22">>
      [] t = "," -> <<"%", "2C">>
      [] t = "[" -> <<"%", "5B">>
      [] t = "]" -> <<"%", "5D">>
      [] t = " " -> <<"+">>
      [] OTHER   -> <<t>>

RECURSIVE QueryEscape(_)
QueryEscape(s) ==
    IF s = <<>> THEN <<>> ELSE EscapeToken(Head(s)) \o QueryEscape(Tail(s))

\* ------------------------------------------------------------- Concept model
Concept(pl, al, d, ty, so, br, tme, fs, wd, dep) ==
    [PrefLabel |-> pl, AltLabels |-> al, Description |-> d, Type |-> ty,
     SchemaObject |-> so, Broader |-> br, TMEIdentifier |-> tme,
     FactsetIdentifier |-> fs, WikidataIdentifier |-> wd, IsDeprecated |-> dep]

conceptLabel(v) ==
    [literalForm |-> <<[value |-> v, language |-> "en"]>>, type |-> <<"skosxl:Label">>]

\* The wrappers appended in reverse.
RECURSIVE altLabelsReversed(_)
altLabelsReversed(al) ==
    IF al = <<>> THEN <<>> ELSE altLabelsReversed(Tail(al)) \o <<conceptLabel(Head(al))>>
RECURSIVE altLabels(_)
altLabels(al) ==
    IF al = <<>> THEN <<>> ELSE <<conceptLabel(Head(al))>> \o altLabels(Tail(al))

\* json.Marshal of inputConcept: the members in struct-field order; a slice
\* member tagged omitempty is left out when it is empty, the struct member
\* skos:topConceptOf is never left out.
Member(key, val) == <<[key |-> key, val |-> val]>>
\* A tag without omitempty.
OmitNothing(key, val) == Member(key, val)
OmitEmpty(key, val) == IF val = <<>> THEN <<>> ELSE Member(key, val)

MarshalJSON(c) ==
       OmitEmpty("skosxl:prefLabel", <<conceptLabel(c.PrefLabel)>>)
    \o OmitEmpty("skosxl:altLabel", altLabels(c.AltLabels))
    \o OmitEmpty("http://www.ft.com/ontology/description",
                 IF c.Description # "" THEN <<[value |-> c.Description, language |-> "en"]>>
                 ELSE <<>>)
    \o OmitEmpty("@type", <<"skos:Concept", c.Type>>)
    \o Member("skos:topConceptOf", [id |-> c.SchemaObject])
    \o OmitEmpty("http://www.ft.com/ontology/TMEIdentifier",
                 IF c.TMEIdentifier # "" THEN <<[value |-> c.TMEIdentifier]>> ELSE <<>>)
    \o OmitEmpty("http://www.ft.com/ontology/factsetIdentifier",
                 IF c.FactsetIdentifier # "" THEN <<[value |-> c.FactsetIdentifier]>> ELSE <<>>)
    \o OmitEmpty("http://www.ft.com/ontology/wikidataIdentifier",
                 IF c.WikidataIdentifier # ""
                 THEN <<[value |-> c.WikidataIdentifier, type |-> "xsd:anyURI"]>> ELSE <<>>)
    \o OmitEmpty("http://www.ft.com/ontology/isDeprecated",
                 IF c.IsDeprecated THEN <<TRUE>> ELSE <<>>)

\* json.Marshal of map[string]string{"@id": conceptURI, fieldURI: fieldValue}:
\* the keys sorted, "@id" before any key that starts with "http".
MarshalMetadataBody(conceptURI, fieldURI, fieldValue) ==
    Member("@id", conceptURI) \o Member(fieldURI, fieldValue)

\* ---------------------------------------------------------- input domains
ModelName == <<"M">>
APIKey == "key"
Tasks == {<<"t">>}
ConceptIDs == {<<"c1">>, <<"c", "/", "2">>}
FieldNames == {<<"factsetIdentifier">>}
FieldValues == {"v"}
Fields == {<<"f">>}
Labels == {"", "L"}
Tokens == {"t1", "t2"}

RECURSIVE SeqsUpTo(_, _)
SeqsUpTo(S, n) ==
    IF n = 0 THEN {<<>>}
    ELSE LET shorter == SeqsUpTo(S, n - 1)
         IN  shorter \cup {Append(q, x) : q \in {r \in shorter : Len(r) = n - 1}, x \in S}

\* The concepts CreateConcept is called with: every combination of the four
\* validated fields, empty or not, with and without alt labels.
Concepts ==
    {Concept(pl, al, "", ty, so, br, "", "", "", FALSE) :
        pl \in Labels, al \in SeqsUpTo({"A"}, MaxAltLabels), ty \in {"", "T"},
        so \in {"", "S"}, br \in {"", "B"}}

\* What the data endpoint can answer.
\* 204 stands for the 2xx codes other than 200 and 201.
DataStatuses ==
    {StatusOK, StatusCreated, 204, StatusUnauthorized, StatusInternalServerError}
DataOutcomes == DataStatuses \cup {TransportFailure}

\* What the token endpoint can answer: no response, or a status with a body
\* that is not JSON ("undecodable") or a JSON object whose access_token is
\* token ("" when the member is missing or empty).
TokenBody(kind, token) == [kind |-> kind, token |-> token]
TokenResponses ==
    {[status |-> TransportFailure, body |-> TokenBody("undecodable", "")],
     [status |-> StatusUnauthorized, body |-> TokenBody("object", "t1")],
     [status |-> StatusInternalServerError, body |-> TokenBody("undecodable", "")],
     [status |-> StatusOK, body |-> TokenBody("undecodable", "")]} \cup
    {[status |-> StatusOK, body |-> TokenBody("object", t)] : t \in Tokens \cup {""}}

\* Only the query reads the response body: whether it decodes is a choice
\* for that operation alone.
DecodableChoices(o) == IF o = "GetConceptsWithCustomMetadata" THEN BOOLEAN ELSE {TRUE}

\* ------------------------------------------------------------ pure helpers
\* The validation without its check of Type.
ValidateConceptNoTypeCheck(c) ==
    IF c.PrefLabel = "" THEN "input concept should have prefLaber defined"
    ELSE IF c.SchemaObject = "" /\ c.Broader = ""
         THEN "input concept should have either schema or broader relation defined"
    ELSE ""

\* A validation that accepts no substitute for the schema.
ValidateConceptSchemaRequired(c) ==
    IF c.PrefLabel = "" THEN "input concept should have prefLaber defined"
    ELSE IF c.SchemaObject = ""
         THEN "input concept should have either schema or broader relation defined"
    ELSE IF c.Type = "" THEN "input concept should have type defined"
    ELSE ""
\* CreateConcept's three checks, in order: the error it returns, or "" when
\* the concept passes.
ValidateConcept(c) ==
    IF c.PrefLabel = "" THEN "input concept should have prefLaber defined"
    ELSE IF c.SchemaObject = "" /\ c.Broader = ""
         THEN "input concept should have either schema or broader relation defined"
    ELSE IF c.Type = "" THEN "input concept should have type defined"
    ELSE ""

\* path.Join of non-empty, already clean elements: joined by "/".
RECURSIVE PathJoin(_)
PathJoin(elems) ==
    IF elems = <<>> THEN <<>>
    ELSE IF Len(elems) = 1 THEN Head(elems)
    ELSE Head(elems) \o <<"/">> \o PathJoin(Tail(elems))

TaskPath(task) == <<"task", ":">> \o ModelName \o <<":">> \o task

\* The RawQuery of each operation's request URL (the rest of the URL is the
\* client's baseAPIURL).
CreateConceptQuery(task) ==
    <<"path", "=">> \o TaskPath(task)
        \o <<"/", "skos", ":", "Concept", "/", "rdf", ":", "instance">>

ConceptURI(conceptID) == ConceptURIPrefix \o <<"/">> \o conceptID
FieldURI(fieldName) == MetadataFieldPrefix \o <<"/">> \o fieldName

\* The concept URI escaped once only.
AddMetadataQueryEscapedOnce(conceptID, task) ==
    <<"path", "=">> \o TaskPath(task) \o <<"/">>
        \o QueryEscape(<<"<">> \o ConceptURI(conceptID) \o <<">">>)
AddMetadataQuery(conceptID, task) ==
    <<"path", "=">> \o TaskPath(task) \o <<"/">>
        \o QueryEscape(QueryEscape(<<"<">> \o ConceptURI(conceptID) \o <<">">>))

\* url.Values.Encode: the keys sorted, key and value each query-escaped.
GetConceptsQuery(task, field, value) ==
       <<"filters", "=">>
    \o QueryEscape(<<"subject", "(", "<">> \o field \o <<">", "=", "\"", value, "\"", ")">>)
    \o <<"&", "path", "=">>
    \o QueryEscape(PathJoin(<<TaskPath(task), <<"skos", ":", "Concept">>,
                               <<"meta", ":", "transitiveInstance">>>>))
    \o <<"&", "properties", "=">>
    \o QueryEscape(<<"rdf", ":", "type", ",", "meta", ":", "displayName", ",", "[", "]">>)

\* A request body as makeAuthorizedRequest gets it: nil, or a bytes.Buffer
\* over data with off of its members read so far.
NilBody == [isNil |-> TRUE, data |-> <<>>, off |-> 0]
NewBuffer(data) == [isNil |-> FALSE, data |-> data, off |-> 0]
Unread(b) == SubSeq(b.data, b.off + 1, Len(b.data))

\* http.NewRequestWithContext followed by the two Header.Set calls: the body
\* of the request is what the reader still holds when the request is made.
NewRequest(m, u, b, token) ==
    [method |-> m, url |-> u, body |-> Unread(b),
     authorization |-> <<"Bearer", token>>, contentType |-> "application/ld+json"]

\* How many members the transport may take from a body reader that holds r:
\* when a response came back the request was written, so a non-empty body
\* was read from (all of it when it fits the write buffer); when the exchange
\* failed any amount may have been read.
ReadCounts(r, outcome) ==
    IF r = 0 THEN {0} ELSE IF outcome = TransportFailure THEN 0..r ELSE 1..r

\* The loop giving up after the first refresh.
LoopCondNoRetry(af) == af < 1
\* The loop running one attempt too many.
LoopCondOffByOne(af) == af <= MaxAccessFailures

\* The for condition of makeAuthorizedRequest.
LoopCond(af) == af < MaxAccessFailures

\* The counter left as it is by the continue.
NextAttemptStuck(af) == af
\* The post statement of the for loop, run by the continue after a refresh.
NextAttempt(af) == af + 1

\* Refreshing the token on any status that is not a success.
AfterDoRefreshOnAnyError(outcome) ==
    IF outcome = TransportFailure THEN "fail"
    ELSE IF outcome \notin {StatusOK, StatusCreated, 204} THEN "refresh"
    ELSE "return"
\* Treating a failed exchange like an expired token.
AfterDoRetryTransport(outcome) ==
    IF outcome = TransportFailure \/ outcome = StatusUnauthorized THEN "refresh"
    ELSE "return"

\* Handing a 401 to the operation like any other response.
AfterDoReturnUnauthorized(outcome) ==
    IF outcome = TransportFailure THEN "fail" ELSE "return"
\* What makeAuthorizedRequest does with the outcome of httpClient.Do.
AfterDo(outcome) ==
    IF outcome = TransportFailure THEN "fail"
    ELSE IF outcome = StatusUnauthorized THEN "refresh"
    ELSE "return"

\* getAccessToken without its status check.
GetAccessTokenNoStatusCheck(r) ==
    IF r.status = TransportFailure
        THEN [token |-> "", err |-> "failed making access token request"]
    ELSE IF r.body.kind = "undecodable"
        THEN [token |-> "", err |-> "failed decoding access token in response body"]
    ELSE [token |-> r.body.token, err |-> ""]
\* getAccessToken dropping the decoder's error.
GetAccessTokenNoDecodeCheck(r) ==
    IF r.status = TransportFailure
        THEN [token |-> "", err |-> "failed making access token request"]
    ELSE IF r.status # StatusOK
        THEN [token |-> "", err |-> "access token request returned http status"]
    ELSE [token |-> r.body.token, err |-> ""]

\* getAccessToken on the token endpoint's answer r.
GetAccessToken(r) ==
    IF r.status = TransportFailure
        THEN [token |-> "", err |-> "failed making access token request"]
    ELSE IF r.status # StatusOK
        THEN [token |-> "", err |-> "access token request returned http status"]
    ELSE IF r.body.kind = "undecodable"
        THEN [token |-> "", err |-> "failed decoding access token in response body"]
    ELSE [token |-> r.body.token, err |-> ""]

\* The status check accepting every 2xx.
StatusAcceptedAny2xx(status) == status >= 200 /\ status < 300

\* The status check of CreateConcept and AddConceptMetadataField.
StatusAccepted(status) == status = StatusOK \/ status = StatusCreated

\* What an operation method returns for what makeAuthorizedRequest returned
\* (m) and, for the query, whether the response body decodes.
NoResult == [ok |-> FALSE, err |-> "", code |-> 0]
Success == [ok |-> TRUE, err |-> "", code |-> 0]
Failure(e, code) == [ok |-> FALSE, err |-> e, code |-> code]

InterpretWrite(m) ==
    IF m.err # "" THEN Failure(m.err, 0)
    ELSE IF ~StatusAccepted(m.resp) THEN Failure("returned status", m.resp)
    ELSE Success

InterpretQuery(m, decodable) ==
    IF m.err # "" THEN Failure(m.err, 0)
    ELSE IF ~decodable THEN Failure("failed to read search response", 0)
    ELSE Success

\* -------------------------------------------------------------------- state
VARIABLES
    client,          \* "nil" until NewClient has returned a client
    accessToken,     \* Client.accessToken
    pc,              \* where each caller is: idle, loop, do, token, interpret, done
    op,              \* the operation each caller runs
    concept,         \* CreateConcept's argument
    method, url, buf,\* makeAuthorizedRequest's arguments
    accessFailures,  \* its loop counter
    sent,            \* the data requests each caller has sent, in order
    resps,           \* the outcome of each of them, in order
    decodable,       \* whether the body of the returned response decodes
    tokenLog,        \* the token endpoint's answers to each caller, in order
    tokenReqs,       \* the token exchanges each caller has started
    mar,             \* what makeAuthorizedRequest returned: response status, error
    result,          \* what the operation returned
    openBodies,      \* response bodies received and not closed yet
    closes,          \* for each response body a caller received, in order: its Close calls
    raced,           \* the token field was written while the caller was about to access it
    ctx,             \* each caller's context: cancelled or not, and where it was cancelled
    doc              \* a Concept handed to json.Marshal, and the document it returned

vars == <<client, accessToken, pc, op, concept, method, url, buf, accessFailures,
          sent, resps, decodable, tokenLog, tokenReqs, mar, result, openBodies,
          closes, raced, ctx, doc>>

callVars == <<op, concept, method, url, buf, accessFailures, sent, resps, decodable,
              tokenLog, tokenReqs, mar, result, openBodies, closes, raced, ctx>>

AuthorizedOps == {"CreateConcept", "AddConceptMetadataField", "GetConceptsWithCustomMetadata"}
NoConcept == Concept("", <<>>, "", "", "", "", "", "", "", FALSE)
NoReturn == [resp |-> 0, err |-> ""]
\* A context that is not cancelled; cancelled, it records how many data
\* outcomes and token answers the caller had, and where it was.
LiveContext == [cancelled |-> FALSE, at |-> "", nresps |-> 0, ntokens |-> 0]
NoDoc == [concept |-> NoConcept, json |-> <<>>, marshalled |-> FALSE]

Init ==
    /\ client = "nil"
    /\ accessToken = ""
    /\ pc = [p \in Procs |-> "idle"]
    /\ op = [p \in Procs |-> ""]
    /\ concept = [p \in Procs |-> NoConcept]
    /\ method = [p \in Procs |-> ""]
    /\ url = [p \in Procs |-> <<>>]
    /\ buf = [p \in Procs |-> NilBody]
    /\ accessFailures = [p \in Procs |-> 0]
    /\ sent = [p \in Procs |-> <<>>]
    /\ resps = [p \in Procs |-> <<>>]
    /\ decodable = [p \in Procs |-> FALSE]
    /\ tokenLog = [p \in Procs |-> <<>>]
    /\ tokenReqs = [p \in Procs |-> 0]
    /\ mar = [p \in Procs |-> NoReturn]
    /\ result = [p \in Procs |-> NoResult]
    /\ openBodies = [p \in Procs |-> 0]
    /\ closes = [p \in Procs |-> <<>>]
    /\ raced = [p \in Procs |-> FALSE]
    /\ ctx = [p \in Procs |-> LiveContext]
    /\ doc = NoDoc

\* A call starts on a caller that is in no call: its record is fresh.
StartCall(p, o, c, m, u, b) ==
    /\ op' = [op EXCEPT ![p] = o]
    /\ concept' = [concept EXCEPT ![p] = c]
    /\ method' = [method EXCEPT ![p] = m]
    /\ url' = [url EXCEPT ![p] = u]
    /\ buf' = [buf EXCEPT ![p] = b]
    /\ UNCHANGED <<accessFailures, sent, resps, decodable, tokenLog, mar, openBodies,
                   closes, raced, ctx, doc>>

\* Response bodies.  A response that came back has a body, open until Close
\* is called on it; getAccessToken closes its own by a defer.
ReceiveBody(bs, outcome) == IF outcome = TransportFailure THEN bs ELSE Append(bs, 0)
\* A Close call left out.
CloseBodyMissing(bs, i) == bs
CloseBody(bs, i) == [bs EXCEPT ![i] = @ + 1]
TokenBodyHandled(bs, r) ==
    IF r.status = TransportFailure THEN bs
    ELSE CloseBody(ReceiveBody(bs, r.status), Len(bs) + 1)

\* The context each request is made with is the caller's.  A request whose
\* context is cancelled gets no response: Do returns the context's error.
DataRequestContext(p) == ctx[p]
\* A token request made under context.Background().
TokenRequestBackground(p) == LiveContext
TokenRequestContext(p) == ctx[p]
DoOutcomes(c, outcomes) == IF c.cancelled THEN {TransportFailure} ELSE outcomes

\* A mutex held from the 401 to the store of the new token.
RefreshLocked(p) == \A q \in Procs \ {p} : pc[q] # "token"
\* What a caller that got a 401 waits for before it calls getAccessToken:
\* nothing, the code takes no lock and shares no exchange in flight.
MayRefresh(p) == TRUE

\* The read of c.accessToken when the request is built.  Nothing orders it
\* with another caller's write of the field; the field is a string, two
\* words, so a read that races with a write can see a value that is neither
\* the old nor the new one.
Torn == "torn"
\* The token read once, before the loop, and used for every attempt.
ReadTokenBeforeLoop(p) ==
    IF sent[p] = <<>> THEN {accessToken} ELSE {sent[p][1].authorization[2]}
ReadToken(p) == IF raced[p] THEN {accessToken, Torn} ELSE {accessToken}
\* Caller q is at the loop head, about to read the field, while p writes it.
AboutToRead(q, p) == q # p /\ pc[q] = "loop" /\ LoopCond(accessFailures[q])
\* The write of c.accessToken after a successful exchange.  Nothing orders
\* it with another caller's write either: of two racing writes of the two
\* words the field may keep the pointer of one and the length of the other.
WriteToken(p, token) == IF raced[p] THEN {token, Torn} ELSE {token}
\* Caller q has got its 401 and is on its way to the write while p writes.
AboutToWrite(q, p) == q # p /\ pc[q] = "token" /\ op[q] \in AuthorizedOps

\* No other caller is inside a call.
Alone(p) == \A q \in Procs \ {p} : pc[q] = "idle"

\* ------------------------------------------------------------------ actions
\* NewClient up to the request getAccessToken sends.
NewClient(p) ==
    /\ client = "nil"
    /\ pc[p] = "idle"
    /\ StartCall(p, "NewClient", NoConcept, "", <<>>, NilBody)
    /\ tokenReqs' = [tokenReqs EXCEPT ![p] = @ + 1]
    /\ pc' = [pc EXCEPT ![p] = "token"]
    /\ UNCHANGED <<client, accessToken, result>>

\* CreateConcept up to its call of makeAuthorizedRequest.
CreateConcept(p, c, task) ==
    /\ client = "constructed"
    /\ pc[p] = "idle"
    /\ IF ValidateConcept(c) # ""
       THEN /\ StartCall(p, "CreateConcept", c, "", <<>>, NilBody)
            /\ result' = [result EXCEPT ![p] = Failure(ValidateConcept(c), 0)]
            /\ pc' = [pc EXCEPT ![p] = "done"]
       ELSE /\ StartCall(p, "CreateConcept", c, "POST", CreateConceptQuery(task),
                         NewBuffer(MarshalJSON(c)))
            /\ pc' = [pc EXCEPT ![p] = "loop"]
            /\ UNCHANGED result
    /\ UNCHANGED <<client, accessToken, tokenReqs>>

\* AddConceptMetadataField up to its call of makeAuthorizedRequest.
AddConceptMetadataField(p, conceptID, fieldName, fieldValue, task) ==
    /\ client = "constructed"
    /\ pc[p] = "idle"
    /\ StartCall(p, "AddConceptMetadataField", NoConcept, "POST",
                 AddMetadataQuery(conceptID, task),
                 NewBuffer(MarshalMetadataBody(ConceptURI(conceptID), FieldURI(fieldName),
                                               fieldValue)))
    /\ pc' = [pc EXCEPT ![p] = "loop"]
    /\ UNCHANGED <<client, accessToken, tokenReqs, result>>

\* GetConceptsWithCustomMetadata up to its call of makeAuthorizedRequest.
GetConceptsWithCustomMetadata(p, task, field, value) ==
    /\ client = "constructed"
    /\ pc[p] = "idle"
    /\ StartCall(p, "GetConceptsWithCustomMetadata", NoConcept, "GET",
                 GetConceptsQuery(task, field, value), NilBody)
    /\ pc' = [pc EXCEPT ![p] = "loop"]
    /\ UNCHANGED <<client, accessToken, tokenReqs, result>>

\* The loop head of makeAuthorizedRequest with the condition true: the
\* request is built with the token read from the client now and handed to
\* httpClient.Do.
SendRequest(p, token) ==
    /\ pc[p] = "loop"
    /\ LoopCond(accessFailures[p])
    /\ token \in ReadToken(p)
    /\ sent' = [sent EXCEPT ![p] = Append(@, NewRequest(method[p], url[p], buf[p], token))]
    /\ raced' = [raced EXCEPT ![p] = FALSE]
    /\ pc' = [pc EXCEPT ![p] = "do"]
    /\ UNCHANGED <<client, accessToken, op, concept, method, url, buf, accessFailures,
                   resps, decodable, tokenLog, tokenReqs, mar, result, openBodies,
                   closes, ctx, doc>>

\* The loop head with the condition false: the error after the loop.
LoopExit(p) ==
    /\ pc[p] = "loop"
    /\ ~LoopCond(accessFailures[p])
    /\ mar' = [mar EXCEPT ![p] =
                  [resp |-> 0, err |-> "failed making request with valid access token"]]
    /\ pc' = [pc EXCEPT ![p] = "interpret"]
    /\ UNCHANGED <<client, accessToken, op, concept, method, url, buf, accessFailures,
                   sent, resps, decodable, tokenLog, tokenReqs, result, openBodies,
                   closes, raced, ctx, doc>>

\* httpClient.Do returns: the transport has read n members of the body; the
\* outcome is a transport failure or a response with a status, whose body
\* decodes or not.  On 401 getAccessToken sends the token request.
DataResponse(p, outcome, dec, n) ==
    /\ pc[p] = "do"
    /\ outcome \in DoOutcomes(DataRequestContext(p), DataOutcomes)
    /\ n \in ReadCounts(Len(Unread(buf[p])), outcome)
    /\ buf' = [buf EXCEPT ![p].off = @ + n]
    /\ resps' = [resps EXCEPT ![p] = Append(@, outcome)]
    /\ CASE AfterDo(outcome) = "fail" ->
              /\ mar' = [mar EXCEPT ![p] =
                            [resp |-> 0, err |-> "failed making authorized request"]]
              /\ pc' = [pc EXCEPT ![p] = "interpret"]
              /\ UNCHANGED <<decodable, tokenReqs, openBodies, closes>>
         [] AfterDo(outcome) = "refresh" ->
              /\ MayRefresh(p)
              /\ tokenReqs' = [tokenReqs EXCEPT ![p] = @ + 1]
              /\ openBodies' = [openBodies EXCEPT ![p] = @ + 1]
              /\ closes' = [closes EXCEPT ![p] = ReceiveBody(@, outcome)]
              /\ pc' = [pc EXCEPT ![p] = "token"]
              /\ UNCHANGED <<decodable, mar>>
         [] AfterDo(outcome) = "return" ->
              /\ mar' = [mar EXCEPT ![p] = [resp |-> outcome, err |-> ""]]
              /\ decodable' = [decodable EXCEPT ![p] = dec]
              /\ openBodies' = [openBodies EXCEPT ![p] = @ + 1]
              /\ closes' = [closes EXCEPT ![p] = ReceiveBody(@, outcome)]
              /\ pc' = [pc EXCEPT ![p] = "interpret"]
              /\ UNCHANGED tokenReqs
    /\ UNCHANGED <<client, accessToken, op, concept, method, url, accessFailures,
                   sent, tokenLog, result, raced, ctx, doc>>

\* getAccessToken returns on the token endpoint's answer r (its own response
\* body is closed by its defer).  In NewClient: the client is returned with
\* the token, or an error and no client.  In makeAuthorizedRequest: the 401
\* response is closed, and the token is stored and the loop continues, or the
\* error is returned.
TokenResponse(p, r) ==
    /\ pc[p] = "token"
    /\ r.status \in DoOutcomes(TokenRequestContext(p), {r.status})
    /\ tokenLog' = [tokenLog EXCEPT ![p] = Append(@, r)]
    /\ LET got == GetAccessToken(r) IN
       IF op[p] = "NewClient"
       THEN /\ IF got.err # ""
               THEN /\ result' = [result EXCEPT ![p] = Failure(got.err, 0)]
                    /\ UNCHANGED <<client, accessToken>>
               ELSE /\ result' = [result EXCEPT ![p] = Success]
                    /\ client' = "constructed"
                    /\ accessToken' = got.token
            /\ closes' = [closes EXCEPT ![p] = TokenBodyHandled(@, r)]
            /\ pc' = [pc EXCEPT ![p] = "done"]
            /\ UNCHANGED <<accessFailures, mar, openBodies, raced>>
       ELSE /\ openBodies' = [openBodies EXCEPT ![p] = @ - 1]
            /\ closes' = [closes EXCEPT ![p] =
                             TokenBodyHandled(CloseBody(@, Len(@)), r)]
            /\ IF got.err # ""
               THEN /\ mar' = [mar EXCEPT ![p] =
                                 [resp |-> 0,
                                  err |-> "failed making request with valid access token"]]
                    /\ pc' = [pc EXCEPT ![p] = "interpret"]
                    /\ UNCHANGED <<accessToken, accessFailures, raced>>
               ELSE /\ accessToken' \in WriteToken(p, got.token)
                    /\ raced' = [q \in Procs |->
                                    IF q = p THEN FALSE
                                    ELSE raced[q] \/ AboutToRead(q, p) \/ AboutToWrite(q, p)]
                    /\ accessFailures' = [accessFailures EXCEPT ![p] = NextAttempt(@)]
                    /\ pc' = [pc EXCEPT ![p] = "loop"]
                    /\ UNCHANGED mar
            /\ UNCHANGED <<client, result>>
    /\ UNCHANGED <<op, concept, method, url, buf, sent, resps, decodable, tokenReqs,
                   ctx, doc>>

\* The operation method after makeAuthorizedRequest has returned: the error
\* is wrapped, or the response is judged and its body closed.
Interpret(p) ==
    /\ pc[p] = "interpret"
    /\ result' = [result EXCEPT ![p] =
                     IF op[p] = "GetConceptsWithCustomMetadata"
                     THEN InterpretQuery(mar[p], decodable[p])
                     ELSE InterpretWrite(mar[p])]
    /\ openBodies' = [openBodies EXCEPT ![p] = IF mar[p].err = "" THEN @ - 1 ELSE @]
    /\ closes' = [closes EXCEPT ![p] = IF mar[p].err = "" THEN CloseBody(@, Len(@)) ELSE @]
    /\ pc' = [pc EXCEPT ![p] = "done"]
    /\ UNCHANGED <<client, accessToken, op, concept, method, url, buf, accessFailures,
                   sent, resps, decodable, tokenLog, tokenReqs, mar, raced, ctx, doc>>

\* The caller takes the result; its record is cleared for its next call.
Return(p) ==
    /\ pc[p] = "done"
    /\ pc' = [pc EXCEPT ![p] = "idle"]
    /\ op' = [op EXCEPT ![p] = ""]
    /\ concept' = [concept EXCEPT ![p] = NoConcept]
    /\ method' = [method EXCEPT ![p] = ""]
    /\ url' = [url EXCEPT ![p] = <<>>]
    /\ buf' = [buf EXCEPT ![p] = NilBody]
    /\ accessFailures' = [accessFailures EXCEPT ![p] = 0]
    /\ sent' = [sent EXCEPT ![p] = <<>>]
    /\ resps' = [resps EXCEPT ![p] = <<>>]
    /\ decodable' = [decodable EXCEPT ![p] = FALSE]
    /\ tokenLog' = [tokenLog EXCEPT ![p] = <<>>]
    /\ tokenReqs' = [tokenReqs EXCEPT ![p] = 0]
    /\ mar' = [mar EXCEPT ![p] = NoReturn]
    /\ result' = [result EXCEPT ![p] = NoResult]
    /\ openBodies' = [openBodies EXCEPT ![p] = 0]
    /\ closes' = [closes EXCEPT ![p] = <<>>]
    /\ raced' = [raced EXCEPT ![p] = FALSE]
    /\ ctx' = [ctx EXCEPT ![p] = LiveContext]
    /\ UNCHANGED <<client, accessToken, doc>>

\* ------------------------------------------------------------ specification
\* Operations run one at a time on the client, by any of the callers: a call
\* starts when no other caller is inside one.
Next ==
    \E p \in Procs :
        \/ Alone(p) /\ NewClient(p)
        \/ \E c \in Concepts, task \in Tasks : Alone(p) /\ CreateConcept(p, c, task)
        \/ \E id \in ConceptIDs, fn \in FieldNames, fv \in FieldValues, task \in Tasks :
              Alone(p) /\ AddConceptMetadataField(p, id, fn, fv, task)
        \/ \E task \in Tasks, f \in Fields, v \in FieldValues :
              Alone(p) /\ GetConceptsWithCustomMetadata(p, task, f, v)
        \/ \E token \in Tokens \cup {"", Torn} : SendRequest(p, token)
        \/ LoopExit(p)
        \/ \E outcome \in DataOutcomes, dec \in DecodableChoices(op[p]),
              n \in 0..Len(buf[p].data) :
              DataResponse(p, outcome, dec, n)
        \/ \E r \in TokenResponses : TokenResponse(p, r)
        \/ Interpret(p)
        \/ Return(p)

Spec == Init /\ [][Next]_vars

\* Every HTTP exchange completes and the code between two exchanges runs: a
\* call that has a step to take takes it.  Nothing obliges a caller to start
\* a call or to pick up a result.
RequestLayerStep(p) ==
    \/ \E token \in Tokens \cup {"", Torn} : SendRequest(p, token)
    \/ LoopExit(p)
    \/ \E outcome \in DataOutcomes, dec \in DecodableChoices(op[p]),
          n \in 0..Len(buf[p].data) :
          DataResponse(p, outcome, dec, n)
    \/ \E r \in TokenResponses : TokenResponse(p, r)
    \/ Interpret(p)

\* Termination does not depend on what is sent: each operation is called
\* with one input, and the endpoints answer as in Spec.
NextLive ==
    \E p \in Procs :
        \/ Alone(p) /\ NewClient(p)
        \/ Alone(p) /\ CreateConcept(p, Concept("L", <<>>, "", "T", "S", "", "", "", "", FALSE),
                                      <<"t">>)
        \/ Alone(p) /\ AddConceptMetadataField(p, <<"c1">>, <<"f">>, "v", <<"t">>)
        \/ Alone(p) /\ GetConceptsWithCustomMetadata(p, <<"t">>, <<"f">>, "v")
        \/ RequestLayerStep(p)
        \/ Return(p)

SpecLive ==
    /\ Init
    /\ [][NextLive]_vars
    /\ \A p \in Procs : WF_vars(RequestLayerStep(p))

\* The caller cancels the context it passed to the call p is in; what the
\* call had received by then is noted.  A response that reached the caller
\* before the cancellation is a response received before this step.
Cancel(p) ==
    /\ pc[p] \in {"loop", "do", "token", "interpret"}
    /\ ~ctx[p].cancelled
    /\ ctx' = [ctx EXCEPT ![p] = [cancelled |-> TRUE, at |-> pc[p],
                                  nresps |-> Len(resps[p]), ntokens |-> Len(tokenLog[p])]]
    /\ UNCHANGED <<client, accessToken, pc, op, concept, method, url, buf,
                   accessFailures, sent, resps, decodable, tokenLog, tokenReqs, mar,
                   result, openBodies, closes, raced, doc>>

NextCancel ==
    \/ Next
    \/ \E p \in Procs : Cancel(p)

SpecCancel == Init /\ [][NextCancel]_vars

\* Concurrent callers on a client whose stored token has expired: the state
\* after NewClient got StaleToken and time has passed.  Each caller runs one
\* operation; calls start and proceed in any interleaving.  The token
\* endpoint issues FreshToken; the data endpoint accepts a request that
\* carries FreshToken and answers 401 to any other; request bodies are small,
\* read whole.
StaleToken == "t1"
FreshToken == "t2"
ConcDataOutcome(r) ==
    IF r.authorization = <<"Bearer", FreshToken>> THEN StatusOK ELSE StatusUnauthorized
ConcTokenResponses == {[status |-> StatusOK, body |-> TokenBody("object", FreshToken)]}

InitConc ==
    /\ client = "constructed"
    /\ accessToken = StaleToken
    /\ pc = [p \in Procs |-> "idle"]
    /\ op = [p \in Procs |-> ""]
    /\ concept = [p \in Procs |-> NoConcept]
    /\ method = [p \in Procs |-> ""]
    /\ url = [p \in Procs |-> <<>>]
    /\ buf = [p \in Procs |-> NilBody]
    /\ accessFailures = [p \in Procs |-> 0]
    /\ sent = [p \in Procs |-> <<>>]
    /\ resps = [p \in Procs |-> <<>>]
    /\ decodable = [p \in Procs |-> FALSE]
    /\ tokenLog = [p \in Procs |-> <<>>]
    /\ tokenReqs = [p \in Procs |-> 0]
    /\ mar = [p \in Procs |-> NoReturn]
    /\ result = [p \in Procs |-> NoResult]
    /\ openBodies = [p \in Procs |-> 0]
    /\ closes = [p \in Procs |-> <<>>]
    /\ raced = [p \in Procs |-> FALSE]
    /\ ctx = [p \in Procs |-> LiveContext]
    /\ doc = NoDoc

NextConc ==
    \E p \in Procs :
        \/ \E task \in Tasks, f \in Fields, v \in FieldValues :
              GetConceptsWithCustomMetadata(p, task, f, v)
        \/ \E token \in {StaleToken, FreshToken, Torn} : SendRequest(p, token)
        \/ LoopExit(p)
        \/ /\ pc[p] = "do"
           /\ DataResponse(p, ConcDataOutcome(sent[p][Len(sent[p])]), TRUE,
                           Len(Unread(buf[p])))
        \/ \E r \in ConcTokenResponses : TokenResponse(p, r)
        \/ Interpret(p)

SpecConc == InitConc /\ [][NextConc]_vars

\* Serialization on its own: a caller starts from the zero Concept, may set
\* its fields to any values, valid or not, has json.Marshal call its
\* MarshalJSON and drops the value.  Alt labels are drawn from two distinct
\* labels so that their order shows.
MaxMarshalAltLabels == 2
MarshalConcepts ==
    {Concept(pl, al, d, ty, so, "", tme, fs, wd, dep) :
        pl \in Labels, al \in SeqsUpTo({"A", "B"}, MaxMarshalAltLabels), d \in {"", "D"},
        ty \in {"", "T"}, so \in {"", "S"}, tme \in {"", "tme"}, fs \in {"", "fs"},
        wd \in {"", "wd"}, dep \in BOOLEAN}

NewConcept(c) ==
    /\ doc = NoDoc
    /\ doc' = [concept |-> c, json |-> <<>>, marshalled |-> FALSE]
    /\ UNCHANGED <<client, accessToken, pc, op, concept, method, url, buf,
                   accessFailures, sent, resps, decodable, tokenLog, tokenReqs, mar,
                   result, openBodies, closes, raced, ctx>>

Marshal ==
    /\ ~doc.marshalled
    /\ doc' = [doc EXCEPT !.json = MarshalJSON(doc.concept), !.marshalled = TRUE]
    /\ UNCHANGED <<client, accessToken, pc, op, concept, method, url, buf,
                   accessFailures, sent, resps, decodable, tokenLog, tokenReqs, mar,
                   result, openBodies, closes, raced, ctx>>

DropConcept ==
    /\ doc.marshalled
    /\ doc' = NoDoc
    /\ UNCHANGED <<client, accessToken, pc, op, concept, method, url, buf,
                   accessFailures, sent, resps, decodable, tokenLog, tokenReqs, mar,
                   result, openBodies, closes, raced, ctx>>

NextMarshal ==
    \/ \E c \in MarshalConcepts : NewConcept(c)
    \/ Marshal
    \/ DropConcept

SpecMarshal == Init /\ [][NextMarshal]_vars

\* ------------------------------------------------------------------- claims
\* The environment's side of an exchange, read off the logs alone.
ExchangeSucceeds(r) == r.status = StatusOK /\ r.body.kind = "object"
AllExchangesSucceed(p) ==
    \A i \in 1..Len(tokenLog[p]) : ExchangeSucceeds(tokenLog[p][i])
\* Caller p is inside, or back from, makeAuthorizedRequest.
InRequestLayer(p) == op[p] \in AuthorizedOps /\ method[p] # ""
Last(q) == q[Len(q)]
AuthFailed == "failed making request with valid access token"

\* C1: an authorized operation whose first data request is answered 401 and
\* whose token exchange succeeds sends a second data request; when that one
\* is answered 200 the operation ends with exactly 2 data requests and
\* exactly 1 token exchange, the 200 response handed back, and success
\* (for the query: when the body of the 200 response decodes).
C1_RetryOnceSucceeds ==
    \A p \in Procs :
        (/\ pc[p] = "done" /\ InRequestLayer(p)
         /\ Len(resps[p]) >= 1 /\ resps[p][1] = StatusUnauthorized
         /\ Len(tokenLog[p]) >= 1 /\ ExchangeSucceeds(tokenLog[p][1]))
        => /\ Len(sent[p]) >= 2
           /\ resps[p][2] = StatusOK =>
                /\ Len(sent[p]) = 2
                /\ tokenReqs[p] = 1
                /\ mar[p] = [resp |-> StatusOK, err |-> ""]
                /\ result[p].ok <=>
                      (op[p] = "GetConceptsWithCustomMetadata" => decodable[p])

C1_Witness ==
    \E p \in Procs :
        /\ pc[p] = "done" /\ op[p] = "CreateConcept"
        /\ resps[p] = <<StatusUnauthorized, StatusOK>>
        /\ Len(sent[p]) = 2 /\ tokenReqs[p] = 1 /\ result[p].ok

\* C2: while every data request is answered 401 and every token exchange
\* succeeds, an authorized operation never sends a 4th data request, and it
\* ends after exactly MaxAccessFailures = 3 of them with an error and no
\* response.
C2_AlwaysUnauthorizedGivesUp ==
    \A p \in Procs :
        (/\ InRequestLayer(p)
         /\ \A i \in 1..Len(resps[p]) : resps[p][i] = StatusUnauthorized
         /\ AllExchangesSucceed(p))
        => /\ Len(sent[p]) <= MaxAccessFailures
           /\ pc[p] = "done" =>
                /\ Len(sent[p]) = MaxAccessFailures
                /\ mar[p] = [resp |-> 0, err |-> AuthFailed]
                /\ ~result[p].ok /\ result[p].err = AuthFailed

C2_Witness ==
    \E p \in Procs :
        /\ pc[p] = "done" /\ InRequestLayer(p)
        /\ resps[p] = <<StatusUnauthorized, StatusUnauthorized, StatusUnauthorized>>
        /\ AllExchangesSucceed(p) /\ Len(tokenLog[p]) = 3
        /\ ~result[p].ok

\* C3: every data request an operation sends after its first is the same
\* request as the first: same method, same URL and the same body.
C3_RetrySendsSameRequest ==
    \A p \in Procs :
        \A i \in 2..Len(sent[p]) :
            /\ sent[p][i].method = sent[p][1].method
            /\ sent[p][i].url = sent[p][1].url
            /\ Len(sent[p][i].body) = Len(sent[p][1].body)
            /\ sent[p][i].body = sent[p][1].body

\* C4: when the token exchange that follows a 401 fails (no response, a
\* status other than 200, or an undecodable body), makeAuthorizedRequest
\* returns an error and no response, no further data request is sent, and
\* the step that receives the failed exchange leaves the stored token as it
\* was.
C4_FailedState ==
    \A p \in Procs :
        (/\ InRequestLayer(p)
         /\ Len(tokenLog[p]) >= 1 /\ ~ExchangeSucceeds(Last(tokenLog[p])))
        => /\ pc[p] \in {"interpret", "done"}
           /\ mar[p] = [resp |-> 0, err |-> AuthFailed]
           /\ Len(sent[p]) = Len(tokenLog[p])
           /\ Len(resps[p]) = Len(sent[p])
           /\ pc[p] = "done" => ~result[p].ok

C4_FailedStep ==
    \A p \in Procs :
        (/\ InRequestLayer(p)
         /\ Len(tokenLog'[p]) = Len(tokenLog[p]) + 1
         /\ ~ExchangeSucceeds(Last(tokenLog'[p])))
        => accessToken' = accessToken

C4_FailedRefreshIsFatal == [](C4_FailedState) /\ [][C4_FailedStep]_vars

C4_Witness ==
    \E p \in Procs :
        /\ pc[p] = "done" /\ InRequestLayer(p)
        /\ Len(tokenLog[p]) = 2
        /\ tokenLog[p][2].status = StatusUnauthorized
        /\ accessToken = tokenLog[p][1].body.token
        /\ ~result[p].ok

\* C5: a response whose status is not 401 is the last thing that happens in
\* makeAuthorizedRequest: it is the response handed back, with no error; the
\* only token exchanges of the call are those of the 401s before it; no data
\* request follows it; and from the step that receives it until the
\* operation returns the stored token does not change.
IsResponse(outcome) == outcome # TransportFailure
C5_ReturnedState ==
    \A p \in Procs :
        \A i \in 1..Len(resps[p]) :
            (IsResponse(resps[p][i]) /\ resps[p][i] # StatusUnauthorized)
            => /\ i = Len(resps[p])
               /\ Len(sent[p]) = i
               /\ pc[p] \in {"interpret", "done"}
               /\ mar[p] = [resp |-> resps[p][i], err |-> ""]
               /\ tokenReqs[p] = i - 1
               /\ Len(tokenLog[p]) = i - 1

C5_ReturnedStep ==
    \A p \in Procs :
        (\/ /\ Len(resps'[p]) = Len(resps[p]) + 1
            /\ IsResponse(Last(resps'[p])) /\ Last(resps'[p]) # StatusUnauthorized
         \/ /\ pc[p] = "interpret" /\ mar[p].err = "")
        => /\ accessToken' = accessToken
           /\ tokenReqs'[p] = tokenReqs[p]
           /\ sent'[p] = sent[p]

C5_NonUnauthorizedEndsRequest == [](C5_ReturnedState) /\ [][C5_ReturnedStep]_vars

C5_Witness ==
    \E p \in Procs :
        /\ pc[p] = "done" /\ InRequestLayer(p)
        /\ resps[p] = <<StatusUnauthorized, StatusInternalServerError>>
        /\ mar[p].resp = StatusInternalServerError
        /\ tokenReqs[p] = 1

\* C6: NewClient makes exactly one token exchange and sends nothing else.  It
\* returns a client, whose stored token is the token of that response,
\* exactly when the exchange ends with status 200 and a decodable body; in
\* every other case it returns an error and there is no client.
C6_NewClientOneExchange ==
    \A p \in Procs :
        (op[p] = "NewClient" /\ pc[p] = "done")
        => /\ tokenReqs[p] = 1 /\ Len(tokenLog[p]) = 1 /\ sent[p] = <<>>
           /\ IF ExchangeSucceeds(tokenLog[p][1])
              THEN /\ result[p].ok /\ client = "constructed"
                   /\ accessToken = tokenLog[p][1].body.token
              ELSE /\ ~result[p].ok /\ result[p].err # "" /\ client = "nil"

C6_Witness ==
    \E p \in Procs :
        /\ op[p] = "NewClient" /\ pc[p] = "done"
        /\ tokenLog[p][1].status = StatusOK /\ tokenLog[p][1].body.kind = "undecodable"
        /\ client = "nil" /\ ~result[p].ok

\* C7: CreateConcept on a Concept with an empty PrefLabel, an empty Type, or
\* both SchemaObject and Broader empty returns an error in the step that
\* calls it: no data request is sent, no token exchange is started, and the
\* stored token is unchanged.
MissingRequiredField(c) ==
    c.PrefLabel = "" \/ c.Type = "" \/ (c.SchemaObject = "" /\ c.Broader = "")

C7_RejectedState ==
    \A p \in Procs :
        (op[p] = "CreateConcept" /\ MissingRequiredField(concept[p]))
        => /\ pc[p] = "done"
           /\ ~result[p].ok /\ result[p].err # ""
           /\ sent[p] = <<>> /\ resps[p] = <<>>
           /\ tokenReqs[p] = 0 /\ tokenLog[p] = <<>>

C7_RejectedStep ==
    \A p \in Procs :
        (op'[p] = "CreateConcept" /\ MissingRequiredField(concept'[p]) /\ pc[p] = "idle")
        => accessToken' = accessToken

C7_InvalidConceptNoRequest == [](C7_RejectedState) /\ [][C7_RejectedStep]_vars

C7_Witness ==
    \E p \in Procs :
        /\ op[p] = "CreateConcept" /\ pc[p] = "done"
        /\ concept[p].PrefLabel # "" /\ concept[p].SchemaObject # ""
        /\ concept[p].Type = ""
        /\ ~result[p].ok /\ sent[p] = <<>>

\* C8: CreateConcept and AddConceptMetadataField, when makeAuthorizedRequest
\* hands back a response, return success exactly when its status is 200 or
\* 201; any other status, other 2xx codes included, is an error.
C8_SuccessIsOKOrCreated ==
    \A p \in Procs :
        (/\ pc[p] = "done" /\ InRequestLayer(p)
         /\ op[p] \in {"CreateConcept", "AddConceptMetadataField"}
         /\ mar[p].err = "")
        => /\ mar[p].resp = Last(resps[p])
           /\ result[p].ok <=> mar[p].resp \in {200, 201}

C8_Witness ==
    \E p \in Procs :
        /\ pc[p] = "done" /\ op[p] = "AddConceptMetadataField"
        /\ mar[p] = [resp |-> 204, err |-> ""]
        /\ ~result[p].ok

\* C9: every data operation, the query included, returns an error when the
\* last answer of the data endpoint has a status that is neither 2xx nor
\* 401, and no request follows that answer.
C9_ServiceErrorIsSurfaced ==
    \A p \in Procs :
        (/\ pc[p] = "done" /\ InRequestLayer(p)
         /\ Len(resps[p]) >= 1
         /\ IsResponse(Last(resps[p]))
         /\ Last(resps[p]) # StatusUnauthorized
         /\ ~(Last(resps[p]) >= 200 /\ Last(resps[p]) < 300))
        => /\ ~result[p].ok
           /\ Len(sent[p]) = Len(resps[p])

\* C10: a data request that fails at the transport level is the last one of
\* its operation, on the first attempt or on a later one: the call returns an
\* error and no response, the only token exchanges are those of the 401s
\* before it, and no data request follows it.
C10_TransportFailureNotRetried ==
    \A p \in Procs :
        \A i \in 1..Len(resps[p]) :
            resps[p][i] = TransportFailure
            => /\ i = Len(resps[p])
               /\ Len(sent[p]) = i
               /\ pc[p] \in {"interpret", "done"}
               /\ mar[p].resp = 0 /\ mar[p].err # ""
               /\ tokenReqs[p] = i - 1
               /\ pc[p] = "done" => ~result[p].ok

C10_Witness ==
    \E p \in Procs :
        /\ pc[p] = "done" /\ InRequestLayer(p)
        /\ resps[p] = <<StatusUnauthorized, TransportFailure>>
        /\ tokenReqs[p] = 1 /\ ~result[p].ok

\* C11: every response a caller received (data responses and token
\* responses, on every path) has a body; no body is ever closed twice, and
\* when the operation has returned every body has been closed exactly once.
RECURSIVE CountResponses(_)
CountResponses(statuses) ==
    IF statuses = <<>> THEN 0
    ELSE (IF IsResponse(Head(statuses)) THEN 1 ELSE 0) + CountResponses(Tail(statuses))

TokenStatuses(p) == [i \in 1..Len(tokenLog[p]) |-> tokenLog[p][i].status]

C11_BodiesClosedExactlyOnce ==
    \A p \in Procs :
        /\ Len(closes[p]) = CountResponses(resps[p]) + CountResponses(TokenStatuses(p))
        /\ \A i \in 1..Len(closes[p]) : closes[p][i] <= 1
        /\ pc[p] = "done" => \A i \in 1..Len(closes[p]) : closes[p][i] = 1

C11_Witness ==
    \E p \in Procs :
        /\ pc[p] = "done" /\ op[p] = "GetConceptsWithCustomMetadata"
        /\ resps[p] = <<StatusUnauthorized, StatusOK>>
        /\ ~decodable[p] /\ ~result[p].ok
        /\ closes[p] = <<1, 1, 1>>

\* C12: token refresh is not serialized.  A caller whose data request is in
\* flight can get its 401 and start its own token exchange whatever the other
\* callers are doing, and a caller whose exchange is in flight can get its
\* token and store it whatever the other callers are doing; so two callers
\* refresh the same stale token.
C12_RefreshNotSerialized ==
    \A p \in Procs :
        /\ pc[p] = "do" =>
              ENABLED DataResponse(p, StatusUnauthorized, TRUE, Len(Unread(buf[p])))
        /\ pc[p] = "token" =>
              ENABLED TokenResponse(p, [status |-> StatusOK,
                                        body |-> TokenBody("object", FreshToken)])

C12_Witness ==
    \E p, q \in Procs :
        /\ p # q
        /\ Len(resps[p]) = 1 /\ Len(resps[q]) = 1
        /\ sent[p][1].authorization = <<"Bearer", StaleToken>>
        /\ sent[q][1].authorization = <<"Bearer", StaleToken>>
        /\ resps[p][1] = StatusUnauthorized /\ resps[q][1] = StatusUnauthorized
        /\ pc[p] = "token" /\ Len(tokenLog[p]) = 0
        /\ Len(tokenLog[q]) = 1 /\ ExchangeSucceeds(tokenLog[q][1])
        /\ accessToken = FreshToken

\* C13: racing refreshes cost duplicate exchanges only, never a failed
\* operation.  Whenever every token exchange so far has succeeded and the data
\* endpoint has accepted every request that carried a token issued after the
\* stale one, no operation has come out of the request layer with the
\* "valid access token" error or with a 401 response.
FreshAccepted(p) ==
    \A i \in 1..Len(resps[p]) :
        sent[p][i].authorization = <<"Bearer", FreshToken>> => resps[p][i] # StatusUnauthorized
C13_RacesNeverFailAnOperation ==
    (\A q \in Procs : AllExchangesSucceed(q) /\ FreshAccepted(q)) =>
        \A p \in Procs :
            pc[p] \in {"interpret", "done"} =>
                /\ mar[p].err # AuthFailed
                /\ mar[p].resp # StatusUnauthorized

\* C14: over the lifetime of a constructed client the stored access token is
\* never empty, whatever the token endpoint has answered.
C14_TokenNeverEmpty == client = "constructed" => accessToken # ""

\* The serialized document as lists of keys and values.
Keys(j) == [i \in 1..Len(j) |-> j[i].key]
HasKey(j, k) == \E i \in 1..Len(j) : j[i].key = k
ValueOf(j, k) == j[CHOOSE i \in 1..Len(j) : j[i].key = k].val
PrefLabelKey == "skosxl:prefLabel"
AltLabelKey == "skosxl:altLabel"
DescriptionKey == "http://www.ft.com/ontology/description"
TypeKey == "@type"
TopConceptOfKey == "skos:topConceptOf"
TMEKey == "http://www.ft.com/ontology/TMEIdentifier"
FactsetKey == "http://www.ft.com/ontology/factsetIdentifier"
WikidataKey == "http://www.ft.com/ontology/wikidataIdentifier"
IsDeprecatedKey == "http://www.ft.com/ontology/isDeprecated"
NoOptionalField(c) ==
    /\ c.AltLabels = <<>> /\ c.Description = "" /\ c.TMEIdentifier = ""
    /\ c.FactsetIdentifier = "" /\ c.WikidataIdentifier = "" /\ ~c.IsDeprecated

\* C15: each of the six optional keys is in the serialized document exactly
\* when its source field is non-empty (true for IsDeprecated); the deprecated
\* key, when present, is [true]; a Concept with only PrefLabel, Type and
\* SchemaObject set serializes to exactly the pref-label block, the type list
\* and the scheme reference.
C15_OptionalKeysExactlyWhenSet ==
    doc.marshalled =>
        LET c == doc.concept
            j == doc.json
        IN  /\ HasKey(j, AltLabelKey) <=> c.AltLabels # <<>>
            /\ HasKey(j, DescriptionKey) <=> c.Description # ""
            /\ HasKey(j, TMEKey) <=> c.TMEIdentifier # ""
            /\ HasKey(j, FactsetKey) <=> c.FactsetIdentifier # ""
            /\ HasKey(j, WikidataKey) <=> c.WikidataIdentifier # ""
            /\ HasKey(j, IsDeprecatedKey) <=> c.IsDeprecated
            /\ HasKey(j, IsDeprecatedKey) => ValueOf(j, IsDeprecatedKey) = <<TRUE>>
            /\ (NoOptionalField(c) /\ c.PrefLabel # "" /\ c.Type # "" /\ c.SchemaObject # "")
                  => Keys(j) = <<PrefLabelKey, TypeKey, TopConceptOfKey>>
C15_Witness ==
    /\ doc.marshalled
    /\ doc.concept = Concept("L", <<>>, "", "T", "S", "", "", "", "", FALSE)
    /\ Len(doc.json) = 3

\* C16: the keys present in the serialized document come in the fixed order
\* preferred label, alt labels, description, type list, scheme reference, TME
\* identifier, Factset identifier, Wikidata identifier, deprecated flag; the
\* alt-label list has one label wrapper per element of AltLabels, in the
\* order of AltLabels.
KeyOrder ==
    <<PrefLabelKey, AltLabelKey, DescriptionKey, TypeKey, TopConceptOfKey, TMEKey,
      FactsetKey, WikidataKey, IsDeprecatedKey>>
KeyRank(k) == CHOOSE n \in 1..Len(KeyOrder) : KeyOrder[n] = k
C16_KeysInFixedOrder ==
    doc.marshalled =>
        LET c == doc.concept
            j == doc.json
        IN  /\ \A i \in 1..Len(j) : \E n \in 1..Len(KeyOrder) : KeyOrder[n] = j[i].key
            /\ \A i, k \in 1..Len(j) : i < k => KeyRank(j[i].key) < KeyRank(j[k].key)
            /\ HasKey(j, AltLabelKey) =>
                  LET wrappers == ValueOf(j, AltLabelKey)
                  IN  /\ Len(wrappers) = Len(c.AltLabels)
                      /\ \A i \in 1..Len(wrappers) :
                            wrappers[i] = conceptLabel(c.AltLabels[i])
C16_Witness ==
    /\ doc.marshalled
    /\ doc.concept = Concept("L", <<"A", "B">>, "D", "T", "S", "", "tme", "fs", "wd", TRUE)
    /\ Keys(doc.json) = KeyOrder
    /\ ValueOf(doc.json, AltLabelKey) = <<conceptLabel("A"), conceptLabel("B")>>

\* C17: every one of the nine keys of the serialized document, the
\* preferred-label, type-list and scheme-reference keys included, is present
\* only if its source field is non-empty (true for IsDeprecated).
C17_EveryKeyOnlyWhenSet ==
    doc.marshalled =>
        LET c == doc.concept
            j == doc.json
        IN  /\ HasKey(j, PrefLabelKey) => c.PrefLabel # ""
            /\ HasKey(j, AltLabelKey) => c.AltLabels # <<>>
            /\ HasKey(j, DescriptionKey) => c.Description # ""
            /\ HasKey(j, TypeKey) => c.Type # ""
            /\ HasKey(j, TopConceptOfKey) => c.SchemaObject # ""
            /\ HasKey(j, TMEKey) => c.TMEIdentifier # ""
            /\ HasKey(j, FactsetKey) => c.FactsetIdentifier # ""
            /\ HasKey(j, WikidataKey) => c.WikidataIdentifier # ""
            /\ HasKey(j, IsDeprecatedKey) => c.IsDeprecated

\* The characters of a bracketed concept URI after two rounds of query
\* escaping, written out: the percent sign of the first round is escaped by
\* the second, the two hex digits are not.
TwiceEscaped(t) ==
    CASE t = "<" -> <<"%", "25", "3C">>
      [] t = ">" -> <<"%", "25", "3E">>
      [] t = ":" -> <<"%", "25", "3A">>
      [] t = "/" -> <<"%", "25", "2F">>
      [] OTHER   -> <<t>>
RECURSIVE TwiceEscapedAll(_)
TwiceEscapedAll(s) ==
    IF s = <<>> THEN <<>> ELSE TwiceEscaped(Head(s)) \o TwiceEscapedAll(Tail(s))
ThingURI(conceptID) == <<"http", ":", "/", "/", "www.ft.com", "/", "thing", "/">> \o conceptID
OntologyURI(fieldName) ==
    <<"http", ":", "/", "/", "www.ft.com", "/", "ontology", "/">> \o fieldName

\* C18: every request of AddConceptMetadataField is a POST whose raw query is
\* path=task:<model>:<task>/ followed by the bracketed concept URI escaped
\* exactly twice, and the body it is called with has exactly two entries,
\* "@id" with the concept URI and the field URI with the field value; every
\* request of CreateConcept has the raw query
\* path=task:<model>:<task>/skos:Concept/rdf:instance, unescaped.
C18_MetadataRequestShape ==
    \A p \in Procs :
        /\ (op[p] = "AddConceptMetadataField" /\ Len(sent[p]) >= 1) =>
              \E conceptID \in ConceptIDs, fieldName \in FieldNames,
                 fieldValue \in FieldValues, task \in Tasks :
                  /\ \A i \in 1..Len(sent[p]) :
                        /\ sent[p][i].method = "POST"
                        /\ sent[p][i].url =
                              <<"path", "=", "task", ":">> \o ModelName \o <<":">> \o task
                                  \o <<"/">>
                                  \o TwiceEscapedAll(<<"<">> \o ThingURI(conceptID) \o <<">">>)
                  /\ sent[p][1].body =
                        <<[key |-> "@id", val |-> ThingURI(conceptID)],
                          [key |-> OntologyURI(fieldName), val |-> fieldValue]>>
        /\ (op[p] = "CreateConcept" /\ Len(sent[p]) >= 1) =>
              \E task \in Tasks :
                  \A i \in 1..Len(sent[p]) :
                      /\ sent[p][i].method = "POST"
                      /\ sent[p][i].url =
                            <<"path", "=", "task", ":">> \o ModelName \o <<":">> \o task
                                \o <<"/", "skos", ":", "Concept", "/", "rdf", ":", "instance">>
C18_Witness ==
    \E p \in Procs :
        /\ op[p] = "AddConceptMetadataField"
        /\ Len(sent[p]) >= 1
        /\ sent[p][1].url =
              <<"path", "=", "task", ":", "M", ":", "t", "/",
                "%", "25", "3C", "http", "%", "25", "3A", "%", "25", "2F", "%", "25", "2F",
                "www.ft.com", "%", "25", "2F", "thing", "%", "25", "2F",
                "c", "%", "25", "2F", "2", "%", "25", "3E">>
        /\ Len(sent[p][1].body) = 2

\* C19: once the context of a call is cancelled no data request and no token
\* exchange of that call completes: each one ends in a transport error, at
\* most one does (no retry follows), and a call cancelled while a request was
\* in flight or still to be sent returns an error.
C19_CancelAbortsAndEndsCall ==
    \A p \in Procs :
        ctx[p].cancelled =>
            /\ \A i \in (ctx[p].nresps + 1)..Len(resps[p]) : resps[p][i] = TransportFailure
            /\ \A i \in (ctx[p].ntokens + 1)..Len(tokenLog[p]) :
                  tokenLog[p][i].status = TransportFailure
            /\ Len(resps[p]) + Len(tokenLog[p]) <= ctx[p].nresps + ctx[p].ntokens + 1
            /\ (ctx[p].at \in {"loop", "do", "token"} /\ pc[p] = "done") =>
                  ~result[p].ok /\ result[p].err # ""
C19_Witness ==
    \E p \in Procs :
        /\ ctx[p].cancelled
        /\ ctx[p].at = "token"
        /\ op[p] \in AuthorizedOps
        /\ Len(tokenLog[p]) = ctx[p].ntokens + 1
        /\ Len(resps[p]) = 1 /\ resps[p][1] = StatusUnauthorized
        /\ pc[p] = "done"
        /\ ~result[p].ok

\* C20: for an operation run alone on a client, every data request carries
\* "Bearer" and the token stored at the moment the request is sent; every
\* request after the first follows a successful token exchange and carries
\* the token that exchange returned.
C20_RetryState ==
    \A p \in Procs :
        InRequestLayer(p) =>
            \A i \in 2..Len(sent[p]) :
                /\ i - 1 <= Len(tokenLog[p])
                /\ resps[p][i - 1] = StatusUnauthorized
                /\ ExchangeSucceeds(tokenLog[p][i - 1])
                /\ sent[p][i].authorization = <<"Bearer", tokenLog[p][i - 1].body.token>>
C20_SendStep ==
    \A p \in Procs :
        Len(sent'[p]) = Len(sent[p]) + 1 =>
            /\ Last(sent'[p]).authorization = <<"Bearer", accessToken>>
            /\ accessToken' = accessToken
C20_RequestCarriesStoredToken == [](C20_RetryState) /\ [][C20_SendStep]_vars
C20_Witness ==
    \E p \in Procs :
        /\ InRequestLayer(p)
        /\ Len(sent[p]) = 2
        /\ sent[p][1].authorization = <<"Bearer", "t1">>
        /\ resps[p][1] = StatusUnauthorized
        /\ tokenLog[p][1] = [status |-> StatusOK, body |-> TokenBody("object", "t2")]
        /\ sent[p][2].authorization = <<"Bearer", "t2">>
        /\ accessToken = "t2"

\* C21: an authorized operation sends at most 3 data requests and starts at
\* most 3 token exchanges, whatever the endpoints answer, and when every
\* exchange completes a call that was started returns.
InCall(p) == pc[p] \in {"loop", "do", "token", "interpret"}
C21_AtMostThree ==
    \A p \in Procs :
        InRequestLayer(p) =>
            /\ Len(sent[p]) <= 3
            /\ Len(resps[p]) <= 3
            /\ tokenReqs[p] <= 3
            /\ Len(tokenLog[p]) <= 3
C21_BoundedAndTerminates ==
    /\ [](C21_AtMostThree)
    /\ \A p \in Procs : InCall(p) ~> (pc[p] = "done")
C21_Witness ==
    \E p \in Procs :
        /\ InRequestLayer(p)
        /\ pc[p] = "done"
        /\ Len(sent[p]) = 3
        /\ tokenReqs[p] = 3
        /\ tokenLog[p][3].status = StatusInternalServerError
        /\ ~result[p].ok

\* C22: a Concept with PrefLabel, Type and Broader set and SchemaObject empty
\* passes CreateConcept's validation and is sent; the document sent is the
\* one of the same Concept without Broader, and its scheme reference is an
\* object with an empty identifier.
BroaderOnly(c) ==
    c.PrefLabel # "" /\ c.Type # "" /\ c.SchemaObject = "" /\ c.Broader # ""
RECURSIVE CountUnauthorized(_)
CountUnauthorized(statuses) ==
    IF statuses = <<>> THEN 0
    ELSE (IF Head(statuses) = StatusUnauthorized THEN 1 ELSE 0)
         + CountUnauthorized(Tail(statuses))
C23_OneExchangePerUnauthorized ==
    \A p \in Procs :
        InRequestLayer(p) =>
            /\ tokenReqs[p] = CountUnauthorized(resps[p])
            /\ (resps[p] = <<StatusUnauthorized, StatusUnauthorized, StatusUnauthorized>>
                  /\ AllExchangesSucceed(p) /\ pc[p] \in {"loop", "interpret", "done"}) =>
                  /\ tokenReqs[p] = 3
                  /\ Len(tokenLog[p]) = 3
                  /\ Len(sent[p]) = 3
                  /\ accessToken = tokenLog[p][3].body.token
                  /\ ~ENABLED (\E token \in Tokens \cup {"", Torn} : SendRequest(p, token))
C23_Witness ==
    \E p \in Procs :
        /\ InRequestLayer(p)
        /\ pc[p] = "done"
        /\ resps[p] = <<StatusUnauthorized, StatusUnauthorized, StatusUnauthorized>>
        /\ tokenReqs[p] = 3
        /\ AllExchangesSucceed(p)
        /\ sent[p][3].authorization = <<"Bearer", "t1">>
        /\ tokenLog[p][3].body.token = "t2"
        /\ accessToken = "t2"

\* C24: under any interleaving of concurrent operations on one client the
\* stored access token is a value returned by a successful token exchange of
\* that client, the one at construction or a later refresh.
IssuedBy(q) ==
    {tokenLog[q][i].body.token :
        i \in {n \in 1..Len(tokenLog[q]) : ExchangeSucceeds(tokenLog[q][n])}}
IssuedTokens == {StaleToken} \cup UNION {IssuedBy(q) : q \in Procs}
C24_StoredTokenWasIssued == accessToken \in IssuedTokens

\* C25: makeAuthorizedRequest never returns a 401 response: when it returns
\* a response its status is the last one seen and is not 401; when the last
\* status it saw was 401 it returns an error and no response; so the status
\* in an error of CreateConcept or AddConceptMetadataField is never 401.
HasReturned(p) == InRequestLayer(p) /\ pc[p] \in {"interpret", "done"}
C25_UnauthorizedNeverReturned ==
    \A p \in Procs :
        HasReturned(p) =>
            /\ mar[p].err = "" =>
                  /\ resps[p] # <<>>
                  /\ mar[p].resp = Last(resps[p])
                  /\ mar[p].resp # StatusUnauthorized
            /\ (resps[p] # <<>> /\ Last(resps[p]) = StatusUnauthorized) =>
                  mar[p].err # "" /\ mar[p].resp = 0
            /\ (pc[p] = "done" /\ op[p] \in {"CreateConcept", "AddConceptMetadataField"}) =>
                  result[p].code # StatusUnauthorized
C25_Witness ==
    \E p \in Procs :
        /\ op[p] = "AddConceptMetadataField"
        /\ pc[p] = "done"
        /\ resps[p] = <<StatusUnauthorized, StatusUnauthorized>>
        /\ tokenLog[p][2].status = TransportFailure
        /\ mar[p] = [resp |-> 0, err |-> AuthFailed]
        /\ ~result[p].ok /\ result[p].code = 0
====
